---- MODULE Spec2Model ----
(***************************************************************************)
(* Customer Measurements: the App component of src/src/App.tsx.            *)
(*                                                                         *)
(* The React state of the component, the asynchronous handlers             *)
(* (fetchCustomers, handleSubmit, handleDelete), each split at its awaits, *)
(* the synchronous handlers (handleEdit, cancel, the inputs' onChange),    *)
(* the filter effect, and the remote `customers` table the handlers call.  *)
(* Text is a sequence of one-character strings.                            *)
(***************************************************************************)
EXTENDS Naturals, Sequences, FiniteSets, Bags

\* ------------------------------------------------------------------ bounds
\* Concurrent invocations of the asynchronous handlers the model follows.
MaxTasks == 2
\* The ids the store hands out (the table starts with id 1).
MaxId == 2
\* The insert, update and delete calls issued in one session.
MaxMutations == 3
\* FilterSpec: the longest record list it enumerates.
MaxListLen == 2

VARIABLES
    customers,          \* useState<Customer[]>([])
    filteredCustomers,  \* useState<Customer[]>([])
    loading,            \* useState(true)
    searchQuery,        \* useState('')
    editingCustomer,    \* useState<Customer | null>(null)
    formData,           \* useState({name, shirt, pants, phone})
    effectPending,      \* a commit changed customers or searchQuery: the filter effect is due
    tasks,              \* the invocations of the async handlers and their calls in flight
    store,              \* the remote table, newest record first (created_at descending)
    nextId,             \* the next id the store assigns
    mutations,          \* the insert, update and delete calls issued so far
    lastEvent           \* the handler step that ran last: its toasts and store calls

vars == << customers, filteredCustomers, loading, searchQuery, editingCustomer,
           formData, effectPending, tasks, store, nextId, mutations, lastEvent >>

\* ------------------------------------------------------------------- text
lowerChar(c) ==
    CASE c = "A" -> "a"
      [] c = "B" -> "b"
      [] OTHER   -> c

toLowerCase(s) == [ i \in 1..Len(s) |-> lowerChar(s[i]) ]

\* String.prototype.indexOf from position k (1-based here); 0 when absent.
RECURSIVE indexOfFrom(_, _, _)
indexOfFrom(s, q, k) ==
    IF k + Len(q) - 1 > Len(s) THEN 0
    ELSE IF SubSeq(s, k, k + Len(q) - 1) = q THEN k
    ELSE indexOfFrom(s, q, k + 1)

\* Variant: only a match at the start of the text counts.
includes_PrefixOnly(s, q) == Len(q) <= Len(s) /\ SubSeq(s, 1, Len(q)) = q

includes(s, q) == indexOfFrom(s, q, 1) # 0

\* ---------------------------------------------------------------- records
EmptyForm == [ name |-> << >>, shirt |-> << >>, pants |-> << >>, phone |-> << >> ]

\* editingCustomer = null
NullCustomer == [ id |-> 0, name |-> << >>, shirt |-> << >>, pants |-> << >>,
                  phone |-> << >> ]

\* Variant: the phone number of the record is not copied into the form.
FieldsOf_NoPhone(c) ==
    [ name |-> c.name, shirt |-> c.shirt, pants |-> c.pants, phone |-> << >> ]

FieldsOf(c) == [ name |-> c.name, shirt |-> c.shirt, pants |-> c.pants,
                 phone |-> c.phone ]

MkCustomer(id, f) == [ id |-> id, name |-> f.name, shirt |-> f.shirt,
                       pants |-> f.pants, phone |-> f.phone ]

Fields == { "name", "shirt", "pants", "phone" }

\* What the user types into each input; the user fills in the form from the top.
FieldInputs(field) ==
    CASE field = "name"  -> { <<"B">> }
      [] field = "shirt" -> { <<"s">> }
      [] field = "pants" -> { <<"p">> }
      [] field = "phone" -> { }

QueryInputs == { << >>, <<"a">> }

\* The rows of the table when the page is opened.
InitialStore ==
    << [ id |-> 1, name |-> <<"A", "b">>, shirt |-> <<"s">>, pants |-> <<"p">>,
         phone |-> <<"1">> ] >>

\* ----------------------------------------------------------- filter effect
matches(customer, query) ==
    \/ includes(toLowerCase(customer.name), toLowerCase(query))
    \/ includes(customer.phone, query)

\* Array.prototype.filter with the predicate of the effect.
RECURSIVE filterFrom(_, _, _)
filterFrom(list, query, i) ==
    IF i > Len(list) THEN << >>
    ELSE IF matches(list[i], query)
         THEN << list[i] >> \o filterFrom(list, query, i + 1)
         ELSE filterFrom(list, query, i + 1)

\* Variant: the scan starts at the second record.
filter_SkipFirst(list, query) == filterFrom(list, query, 2)

filter(list, query) == filterFrom(list, query, 1)

\* ------------------------------------------------------------ store calls
NoReq  == [ op |-> "none", id |-> 0, fields |-> EmptyForm ]
NoResp == [ status |-> "none", op |-> "none", data |-> << >> ]

SelectReq       == [ op |-> "select", id |-> 0, fields |-> EmptyForm ]
InsertReq(f)    == [ op |-> "insert", id |-> 0, fields |-> f ]
UpdateReq(i, f) == [ op |-> "update", id |-> i, fields |-> f ]
DeleteReq(i)    == [ op |-> "delete", id |-> i, fields |-> EmptyForm ]

\* tasks is the bag of the invocations that have not returned.
Running == BagToSet(tasks)

NewTask(kind, editing, req) ==
    [ kind |-> kind, pc |-> IF req.op = "select" THEN "awaitList" ELSE "awaitMut",
      editing |-> editing, req |-> req, resp |-> NoResp ]

\* A handler is invoked; task t goes on as u; the handler of task t returns.
Invoke(u) == tasks (+) SetToBag({ u })
Continue(t, u) == (tasks (-) SetToBag({ t })) (+) SetToBag({ u })
Return(t) == tasks (-) SetToBag({ t })

Event(type, toasts, calls) == [ type |-> type, toasts |-> toasts, calls |-> calls ]


\* ------------------------------------------------------------ remote store
\* The `customers` table behind supabase.from('customers'): insert assigns the id
\* and the newest created_at, update replaces the four fields of the row with
\* that id, delete removes it, select returns the rows newest first. A call
\* that matches no row succeeds and changes nothing.
storeInsert(st, id, f) == << MkCustomer(id, f) >> \o st

storeUpdate(st, id, f) ==
    [ i \in 1..Len(st) |-> IF st[i].id = id THEN MkCustomer(id, f) ELSE st[i] ]

storeDelete(st, id) == SelectSeq(st, LAMBDA c : c.id # id)

\* The store answers the call of task t: with an error, leaving the table as it
\* is, or with success.
Serve(t, ok) ==
    LET req == t.req IN
    /\ req.op # "none"
    /\ t.resp.status = "none"
    /\ IF ~ok
       THEN /\ tasks' = Continue(t, [ t EXCEPT !.req = NoReq,
                                        !.resp = [ status |-> "error", op |-> req.op,
                                                   data |-> << >> ] ])
            /\ UNCHANGED << store, nextId >>
       ELSE /\ req.op = "insert" => nextId <= MaxId
            /\ store' = CASE req.op = "insert" -> storeInsert(store, nextId, req.fields)
                          [] req.op = "update" -> storeUpdate(store, req.id, req.fields)
                          [] req.op = "delete" -> storeDelete(store, req.id)
                          [] OTHER -> store
            /\ nextId' = IF req.op = "insert" THEN nextId + 1 ELSE nextId
            /\ tasks' = Continue(t, [ t EXCEPT !.req = NoReq,
                                        !.resp = [ status |-> "ok", op |-> req.op,
                                                   data |-> IF req.op = "select"
                                                            THEN store ELSE << >> ] ])
    /\ lastEvent' = Event("other", << >>, << >>)
    /\ UNCHANGED << customers, filteredCustomers, loading, searchQuery,
                    editingCustomer, formData, effectPending, mutations >>

\* The dependency list of the filter effect, [searchQuery, customers]: the effect
\* runs after a commit in which one of the two changed.
\* Variant: the dependency list is [searchQuery] alone.
filterEffectDue_QueryOnly(queryChanged, customersChanged) == queryChanged

filterEffectDue(queryChanged, customersChanged) == queryChanged \/ customersChanged

\* -------------------------------------------------------------- the inputs
\* onChange of the search box.
setSearchQuery(q) ==
    /\ ~effectPending
    /\ q # searchQuery
    /\ searchQuery' = q
    /\ effectPending' = filterEffectDue(TRUE, FALSE)
    /\ lastEvent' = Event("other", << >>, << >>)
    /\ UNCHANGED << customers, filteredCustomers, loading, editingCustomer,
                    formData, tasks, store, nextId, mutations >>

\* onChange of one input of the form.
setFormField(field, v) ==
    /\ ~effectPending
    /\ v # formData[field]
    /\ field = "shirt" => formData.name # << >>
    /\ field = "pants" => formData.shirt # << >>
    /\ formData' = [ formData EXCEPT ![field] = v ]
    /\ lastEvent' = Event("other", << >>, << >>)
    /\ UNCHANGED << customers, filteredCustomers, loading, searchQuery,
                    editingCustomer, effectPending, tasks, store, nextId, mutations >>

\* The effect on [searchQuery, customers].
filterEffect ==
    /\ effectPending
    /\ filteredCustomers' = filter(customers, searchQuery)
    /\ effectPending' = FALSE
    /\ lastEvent' = Event("other", << >>, << >>)
    /\ UNCHANGED << customers, loading, searchQuery, editingCustomer, formData,
                    tasks, store, nextId, mutations >>

\* The rows on screen, each with its edit and delete buttons.
Rows == { filteredCustomers[i] : i \in 1..Len(filteredCustomers) }

handleEdit(customer) ==
    /\ ~effectPending
    /\ customer \in Rows
    /\ editingCustomer' = customer
    /\ formData' = FieldsOf(customer)
    /\ lastEvent' = Event("edit", << >>, << >>)
    /\ UNCHANGED << customers, filteredCustomers, loading, searchQuery,
                    effectPending, tasks, store, nextId, mutations >>

\* The Cancel button, rendered while editingCustomer is set.
cancelEdit ==
    /\ ~effectPending
    /\ editingCustomer # NullCustomer
    /\ editingCustomer' = NullCustomer
    /\ formData' = EmptyForm
    /\ lastEvent' = Event("cancel", << >>, << >>)
    /\ UNCHANGED << customers, filteredCustomers, loading, searchQuery,
                    effectPending, tasks, store, nextId, mutations >>


\* ------------------------------------------------------ the async handlers
\* The input `required` attributes of name, shirt and pants: the browser
\* refuses to submit the form while one of them is empty.
requiredFilled(f) == f.name # << >> /\ f.shirt # << >> /\ f.pants # << >>

\* The call handleSubmit issues: update(...).eq('id', editingCustomer.id) when
\* editing, insert([formData]) otherwise.
\* Variant: the editing branch is missing.
submitRequest_AlwaysInsert(editing, f) == InsertReq(f)

submitRequest(editing, f) ==
    IF editing # NullCustomer THEN UpdateReq(editing.id, f) ELSE InsertReq(f)

\* handleSubmit up to its await. The submit button is disabled while loading.
handleSubmit ==
    /\ ~effectPending
    /\ ~loading
    /\ requiredFilled(formData)
    /\ BagCardinality(tasks) < MaxTasks
    /\ mutations < MaxMutations
    /\ mutations' = mutations + 1
    /\ loading' = TRUE
    /\ LET req == submitRequest(editingCustomer, formData) IN
       /\ tasks' = Invoke(NewTask("submit", editingCustomer, req))
       /\ lastEvent' = Event("submit", << >>, << req >>)
    /\ UNCHANGED << customers, filteredCustomers, searchQuery, editingCustomer,
                    formData, effectPending, store, nextId >>

\* Variant: the answer to the prompt is ignored.
proceedsAfterConfirm_Ignored(confirmed) == TRUE

\* if (!confirm(...)) return: whether handleDelete goes on after the prompt.
proceedsAfterConfirm(confirmed) == confirmed

\* handleDelete up to its await: confirm() answers `confirmed`.
handleDelete(id, confirmed) ==
    /\ ~effectPending
    /\ \E c \in Rows : c.id = id
    /\ IF ~proceedsAfterConfirm(confirmed)
       THEN /\ lastEvent' = Event(IF confirmed THEN "delete" ELSE "deleteDeclined",
                                  << >>, << >>)
            /\ UNCHANGED << loading, tasks, mutations >>
       ELSE /\ BagCardinality(tasks) < MaxTasks
            /\ mutations < MaxMutations
            /\ mutations' = mutations + 1
            /\ loading' = TRUE
            /\ tasks' = Invoke(NewTask("delete", NullCustomer, DeleteReq(id)))
            /\ lastEvent' = Event(IF confirmed THEN "delete" ELSE "deleteDeclined",
                                  << >>, << DeleteReq(id) >>)
    /\ UNCHANGED << customers, filteredCustomers, searchQuery, editingCustomer,
                    formData, effectPending, store, nextId >>

\* Variant: the catch reads the editing target of the current render.
submitErrorMessage_CurrentState(t) ==
    IF editingCustomer # NullCustomer THEN "Error updating customer"
    ELSE "Error adding customer"

\* The catch of handleSubmit: editingCustomer is the value the handler closed
\* over when it was invoked.
submitErrorMessage(t) ==
    IF t.editing # NullCustomer THEN "Error updating customer"
    ELSE "Error adding customer"

submitSuccessMessage(t) ==
    IF t.editing # NullCustomer THEN "Customer updated successfully"
    ELSE "Customer added successfully"

\* Variant: the form is not reset after a successful insert or update.
formAfterSubmit_Kept == formData

\* Variant: the editing target is not reset after a successful insert or update.
editingAfterSubmit_Kept == editingCustomer

\* The form and the editing target after a successful insert or update.
formAfterSubmit == EmptyForm
editingAfterSubmit == NullCustomer

\* Variant: the form is reset whether or not the call succeeded.
formAfterSubmitError_Cleared == EmptyForm

\* The form after a failed insert or update: the catch leaves it alone.
formAfterSubmitError == formData

\* fetchCustomers() called from a handler: the select goes out and the handler
\* waits for it.
awaitFetch(t) ==
    Continue(t, [ t EXCEPT !.pc = "awaitList", !.req = SelectReq, !.resp = NoResp ])

\* Variant: the catch block of a handler calls fetchCustomers again.
tasksAfterMutationError_Refetch(t) == awaitFetch(t)

\* The handler after its insert, update or delete failed: the catch block shows
\* the error and the handler returns; no call is made again.
tasksAfterMutationError(t) == Return(t)

\* handleSubmit from the answer to its insert or update.
handleSubmitResolved(t) ==
    /\ ~effectPending
    /\ t.kind = "submit"
    /\ t.pc = "awaitMut"
    /\ t.resp.status # "none"
    /\ IF t.resp.status = "error"
       THEN /\ lastEvent' = Event("submitError", << submitErrorMessage(t) >>, << >>)
            /\ loading' = FALSE
            /\ tasks' = tasksAfterMutationError(t)
            /\ formData' = formAfterSubmitError
            /\ UNCHANGED editingCustomer
       ELSE /\ lastEvent' = Event("submitOk", << submitSuccessMessage(t) >>,
                                  << SelectReq >>)
            /\ formData' = formAfterSubmit
            /\ editingCustomer' = editingAfterSubmit
            /\ tasks' = awaitFetch(t)
            /\ UNCHANGED loading
    /\ UNCHANGED << customers, filteredCustomers, searchQuery, effectPending,
                    store, nextId, mutations >>

\* Variant: a successful delete resets the form.
formAfterDelete_Cleared == EmptyForm

\* The form after a successful delete: handleDelete does not touch it.
formAfterDelete == formData

\* handleDelete from the answer to its delete.
handleDeleteResolved(t) ==
    /\ ~effectPending
    /\ t.kind = "delete"
    /\ t.pc = "awaitMut"
    /\ t.resp.status # "none"
    /\ IF t.resp.status = "error"
       THEN /\ lastEvent' = Event("deleteError", << "Error deleting customer" >>, << >>)
            /\ loading' = FALSE
            /\ tasks' = tasksAfterMutationError(t)
            /\ UNCHANGED formData
       ELSE /\ lastEvent' = Event("deleteOk", << "Customer deleted successfully" >>,
                                  << SelectReq >>)
            /\ formData' = formAfterDelete
            /\ tasks' = awaitFetch(t)
            /\ UNCHANGED loading
    /\ UNCHANGED << customers, filteredCustomers, searchQuery, editingCustomer,
                    effectPending, store, nextId, mutations >>

\* Variant: setCustomers(data || []) also runs when the select failed.
customersAfterFetchError_Cleared == << >>

\* The record list after a failed select.
customersAfterFetchError == customers

\* Variant: an answer with rows is ignored once the list holds records.
customersAfterFetch_KeepFirst(data) == IF customers = << >> THEN data ELSE customers

\* Variant: the rows of an answer are stored last row first.
customersAfterFetch_Reversed(data) ==
    [ i \in 1..Len(data) |-> data[Len(data) + 1 - i] ]

\* The record list after a successful select: setCustomers(data || []).
customersAfterFetch(data) == data

\* Variant: the finally blocks leave the loading flag as it is.
loadingAfterFetch_Kept == loading

\* The loading flag when a handler returns: the finally of fetchCustomers, then
\* the finally of the handler that awaited it.
loadingAfterFetch == FALSE

\* fetchCustomers from the answer to its select, and the return of the handler
\* that awaited it (the mount effect, handleSubmit or handleDelete).  The event
\* is "fetchOkStale" when the list held the table's rows and the answer, read
\* from the table before a later change, does not.
fetchCustomersResolved(t) ==
    /\ ~effectPending
    /\ t.pc = "awaitList"
    /\ t.resp.status # "none"
    /\ IF t.resp.status = "error"
       THEN /\ lastEvent' = Event("fetchError", << "Error fetching customers" >>, << >>)
            /\ customers' = customersAfterFetchError
            /\ UNCHANGED << filteredCustomers, effectPending >>
       ELSE /\ lastEvent' = Event(IF customers = store /\ t.resp.data # store
                                   THEN "fetchOkStale" ELSE "fetchOk",
                                  << >>, << >>)
            /\ customers' = customersAfterFetch(t.resp.data)
            /\ filteredCustomers' = customersAfterFetch(t.resp.data)
            /\ effectPending' = filterEffectDue(FALSE, TRUE)
    /\ loading' = loadingAfterFetch
    /\ tasks' = Return(t)
    /\ UNCHANGED << searchQuery, editingCustomer, formData, store, nextId, mutations >>

\* ------------------------------------------------------------ specification
\* The component after mounting: the mount effect has called fetchCustomers and
\* the filter effect has run on the empty list.
Init ==
    /\ customers = << >>
    /\ filteredCustomers = << >>
    /\ loading = TRUE
    /\ searchQuery = << >>
    /\ editingCustomer = NullCustomer
    /\ formData = EmptyForm
    /\ effectPending = FALSE
    /\ tasks = SetToBag({ NewTask("mount", NullCustomer, SelectReq) })
    /\ mutations = 0
    /\ store = InitialStore
    /\ nextId = Len(InitialStore) + 1
    /\ lastEvent = Event("mount", << >>, << SelectReq >>)

Next ==
    \/ \E t \in Running, ok \in BOOLEAN : Serve(t, ok)
    \/ \E q \in QueryInputs : setSearchQuery(q)
    \/ \E field \in Fields : \E v \in FieldInputs(field) : setFormField(field, v)
    \/ filterEffect
    \/ \E c \in Rows : handleEdit(c)
    \/ cancelEdit
    \/ handleSubmit
    \/ \E c \in Rows, confirmed \in BOOLEAN : handleDelete(c.id, confirmed)
    \/ \E t \in Running : handleSubmitResolved(t)
    \/ \E t \in Running : handleDeleteResolved(t)
    \/ \E t \in Running : fetchCustomersResolved(t)

Spec == Init /\ [][Next]_vars

\* The user acts only when no call is in flight: every earlier store call has
\* been answered and its handler has returned.  This client is the only writer
\* of the table.
SeqNext ==
    \/ \E t \in Running, ok \in BOOLEAN : Serve(t, ok)
    \/ tasks = EmptyBag /\ \E q \in QueryInputs : setSearchQuery(q)
    \/ tasks = EmptyBag
         /\ \E field \in Fields : \E v \in FieldInputs(field) : setFormField(field, v)
    \/ filterEffect
    \/ tasks = EmptyBag /\ \E c \in Rows : handleEdit(c)
    \/ tasks = EmptyBag /\ cancelEdit
    \/ tasks = EmptyBag /\ handleSubmit
    \/ tasks = EmptyBag
         /\ \E c \in Rows, confirmed \in BOOLEAN : handleDelete(c.id, confirmed)
    \/ \E t \in Running : handleSubmitResolved(t)
    \/ \E t \in Running : handleDeleteResolved(t)
    \/ \E t \in Running : fetchCustomersResolved(t)

SeqSpec == Init /\ [][SeqNext]_vars

\* Every call is answered, every answer is taken by the handler awaiting it and
\* every scheduled effect runs.  The continuation of an await and the effect are
\* scheduled by the runtime as soon as they are due; a continuation is taken
\* after the effects of the preceding render, so it is enabled again and again
\* while the user keeps changing the query.  The user stops issuing store calls
\* after MaxMutations of them.
LiveSpec ==
    /\ Init
    /\ [][Next]_vars
    /\ WF_vars(\E t \in Running, ok \in BOOLEAN : Serve(t, ok))
    /\ WF_vars(filterEffect)
    /\ SF_vars(\E t \in Running : handleSubmitResolved(t))
    /\ SF_vars(\E t \in Running : handleDeleteResolved(t))
    /\ SF_vars(\E t \in Running : fetchCustomersResolved(t))


\* ------------------------------------------- the filter on enumerated inputs
FilterNames == { <<"A">>, <<"b">>, <<"a", "B">>, <<"B", "a">>, <<"A", "A">> }
FilterPhones == { << >>, <<"1">>, <<"2", "1">>, <<"a">> }
FilterQueries == { << >>, <<"a">>, <<"A">>, <<"B">>, <<"b", "A">>, <<"a", "b">>,
                   <<"1">>, <<"2", "1">>, <<"1", "2">> }

FilterLists ==
    UNION { { [ i \in 1..n |-> [ id |-> i, name |-> l[i][1], shirt |-> <<"s">>,
                                 pants |-> <<"p">>, phone |-> l[i][2] ] ] :
              l \in [ 1..n -> FilterNames \X FilterPhones ] } : n \in 0..MaxListLen }

\* The component right after a successful fetch of the list L that arrived
\* while the search box held q: the filter effect is due.
FilterInit ==
    /\ customers \in FilterLists
    /\ filteredCustomers = customers
    /\ searchQuery \in FilterQueries
    /\ effectPending = TRUE
    /\ loading = FALSE
    /\ editingCustomer = NullCustomer
    /\ formData = EmptyForm
    /\ tasks = EmptyBag
    /\ store = customers
    /\ nextId = Len(customers) + 1
    /\ mutations = 0
    /\ lastEvent = Event("fetchOk", << >>, << >>)

FilterNext == filterEffect

FilterSpec == FilterInit /\ [][FilterNext]_vars

\* ------------------------------------------------------------- properties
\* A call is in flight from the moment its handler issues it until the handler
\* has taken its answer: every task in `tasks` has one.
InFlight == tasks # EmptyBag

\* The step takes the answer of task t: the handler of t runs on from its await.
Resolves(t) == t.resp.status # "none" /\ CopiesIn(t, tasks') < CopiesIn(t, tasks)

\* The step issues a re-fetch for task t.
Refetches(t) ==
    LET u == [ t EXCEPT !.pc = "awaitList", !.req = SelectReq, !.resp = NoResp ]
    IN  /\ lastEvent'.calls = << SelectReq >>
        /\ CopiesIn(u, tasks') = CopiesIn(u, tasks) + 1

\* C1: whenever a create, update, delete or list call is in flight, the loading
\* flag is true, in every interleaving, overlapping calls included.
C1_LoadingWhileInFlight == InFlight => loading

\* C2 as stated: after any successful create, modify or delete call the four form
\* fields are cleared and a re-fetch is issued.
C2_ClearsAfterAnySuccess ==
    [][ \A t \in Running :
          (t.pc = "awaitMut" /\ t.resp.status = "ok" /\ Resolves(t))
          => (formData' = EmptyForm /\ Refetches(t)) ]_vars

\* C2 as amended: a successful create or modify call clears the four form fields
\* and issues a re-fetch; a successful delete call issues a re-fetch and leaves
\* the form fields as they are.
C2_ClearsAfterSubmitOnly ==
    [][ \A t \in Running :
          (t.pc = "awaitMut" /\ t.resp.status = "ok" /\ Resolves(t))
          => /\ Refetches(t)
             /\ t.resp.op \in { "insert", "update" } => formData' = EmptyForm
             /\ t.resp.op = "delete" => formData' = formData ]_vars

C2_Witness ==
    /\ lastEvent.type = "deleteOk"
    /\ formData # EmptyForm
    /\ \E t \in Running : t.kind = "delete" /\ t.pc = "awaitList"

CasePairs == { <<"A", "a">>, <<"B", "b">> }
Fold(s) ==
    [ i \in 1..Len(s) |->
        IF \E p \in CasePairs : p[1] = s[i]
        THEN (CHOOSE p \in CasePairs : p[1] = s[i])[2]
        ELSE s[i] ]
IsSubstring(q, s) ==
    \E i \in 0..Len(s) : i + Len(q) <= Len(s) /\ \A k \in 1..Len(q) : s[i + k] = q[k]
Retained(c, q) == IsSubstring(Fold(q), Fold(c.name)) \/ IsSubstring(q, c.phone)

\* The k-th smallest member of a set of indices.
Nth(S, k) == CHOOSE i \in S : Cardinality({ j \in S : j < i }) = k - 1

\* C4: the filter keeps a record iff the folded query is a substring of the
\* folded name or the query is a substring of the phone, and the records kept
\* are in the order of the list.
C4_FilterContract ==
    ~effectPending =>
        LET kept == { i \in 1..Len(customers) : Retained(customers[i], searchQuery) }
        IN  /\ Len(filteredCustomers) = Cardinality(kept)
            /\ \A k \in 1..Len(filteredCustomers) :
                 filteredCustomers[k] = customers[Nth(kept, k)]

\* A record kept through case folding alone, another dropped.
C4_Witness ==
    /\ ~effectPending
    /\ Len(customers) = 2
    /\ Len(filteredCustomers) = 1
    /\ ~IsSubstring(searchQuery, filteredCustomers[1].name)
    /\ ~IsSubstring(searchQuery, filteredCustomers[1].phone)

\* C5: the filter of a list by the empty query is the list, members and order.
C5_EmptyQueryKeepsAll ==
    (~effectPending /\ searchQuery = << >>) => filteredCustomers = customers

C5_Witness ==
    /\ ~effectPending
    /\ searchQuery = << >>
    /\ Len(customers) >= 2
    /\ filteredCustomers = customers

\* The step is an invocation of handleSubmit.
Submits == lastEvent'.type = "submit" /\ mutations' = mutations + 1

\* C6: a submission in Editing(R) issues exactly one modify call, for R's id, and
\* no create call; a submission in Idle/Create issues exactly one create call
\* and no modify call.
C6_SubmitCallByMode ==
    [][ Submits =>
          /\ Len(lastEvent'.calls) = 1
          /\ BagCardinality(tasks') = BagCardinality(tasks) + 1
          /\ \E u \in BagToSet(tasks') :
                /\ CopiesIn(u, tasks') = CopiesIn(u, tasks) + 1
                /\ u.req = lastEvent'.calls[1]
          /\ IF editingCustomer # NullCustomer
             THEN /\ lastEvent'.calls[1].op = "update"
                  /\ lastEvent'.calls[1].id = editingCustomer.id
             ELSE lastEvent'.calls[1].op = "insert" ]_vars

C6_Witness ==
    /\ lastEvent.type = "submit"
    /\ lastEvent.calls[1].op = "update"
    /\ lastEvent.calls[1].id = editingCustomer.id

\* C7: a failed create call leaves the record list, the filtered view, the form
\* fields and the editing target as they were and issues no re-fetch.
C7_FailedCreateFrame ==
    [][ \A t \in Running :
          (t.resp.status = "error" /\ t.resp.op = "insert" /\ Resolves(t))
          => /\ UNCHANGED << customers, filteredCustomers, formData, editingCustomer >>
             /\ lastEvent'.calls = << >>
             /\ tasks' = tasks (-) SetToBag({ t }) ]_vars

C7_Witness ==
    /\ lastEvent.type = "submitError"
    /\ lastEvent.toasts = << "Error adding customer" >>
    /\ requiredFilled(formData)
    /\ editingCustomer = NullCustomer
    /\ customers # << >>

\* C8: a failed fetch leaves the record list and the filtered view as they were,
\* emits exactly one fetch-failure notification and clears the loading flag.
C8_FailedFetchFrame ==
    [][ \A t \in Running :
          (t.resp.status = "error" /\ t.resp.op = "select" /\ Resolves(t))
          => /\ UNCHANGED << customers, filteredCustomers >>
             /\ lastEvent'.toasts = << "Error fetching customers" >>
             /\ loading' = FALSE ]_vars

C8_Witness ==
    /\ lastEvent.type = "fetchError"
    /\ customers # << >>
    /\ filteredCustomers # << >>
    /\ ~loading

\* C9: declining the delete prompt issues no store call, emits no notification
\* and leaves the list, the filtered view, the form fields, the editing target
\* and the loading flag unchanged.
C9_DeclineChangesNothing ==
    [][ lastEvent'.type = "deleteDeclined" =>
          /\ lastEvent'.calls = << >>
          /\ lastEvent'.toasts = << >>
          /\ UNCHANGED << customers, filteredCustomers, loading, searchQuery,
                          editingCustomer, formData, effectPending, tasks, store,
                          nextId, mutations >> ]_vars

C9_Witness ==
    /\ lastEvent.type = "deleteDeclined"
    /\ customers # << >>

\* The fixed message of each kind of call.
SuccessMessage(op) ==
    CASE op = "insert" -> "Customer added successfully"
      [] op = "update" -> "Customer updated successfully"
      [] op = "delete" -> "Customer deleted successfully"

FailureMessage(op) ==
    CASE op = "insert" -> "Error adding customer"
      [] op = "update" -> "Error updating customer"
      [] op = "delete" -> "Error deleting customer"
      [] op = "select" -> "Error fetching customers"

\* C10: every successful create, modify or delete call emits exactly one success
\* notification and every failed call exactly one failure notification of the
\* kind of the call that failed, whatever the editing mode is by then; a step
\* that takes no answer emits none.
C10_OneNotificationPerCall ==
    [][ /\ \A t \in Running :
             Resolves(t) =>
               /\ (t.resp.status = "ok" /\ t.resp.op # "select")
                    => lastEvent'.toasts = << SuccessMessage(t.resp.op) >>
               /\ t.resp.status = "error"
                    => lastEvent'.toasts = << FailureMessage(t.resp.op) >>
        /\ (\A t \in Running : ~Resolves(t)) => lastEvent'.toasts = << >> ]_vars

\* A create failed after the user had started editing a record.
C10_Witness ==
    /\ lastEvent.toasts = << "Error adding customer" >>
    /\ editingCustomer # NullCustomer


\* C11: a create submitted in Idle/Create and answered with success leaves the
\* controller in Idle/Create with the four form fields empty and issues exactly
\* one re-fetch: one select when the answer is taken, none when the handler
\* returns from it.
C11_CreateSuccess ==
    [][ \A t \in Running :
          /\ (t.resp.status = "ok" /\ t.resp.op = "insert" /\ Resolves(t))
               => /\ editingCustomer' = NullCustomer
                  /\ formData' = EmptyForm
                  /\ Refetches(t)
                  /\ BagCardinality(tasks') = BagCardinality(tasks)
          /\ (t.kind = "submit" /\ t.pc = "awaitList" /\ Resolves(t))
               => /\ lastEvent'.calls = << >>
                  /\ tasks' = tasks (-) SetToBag({ t }) ]_vars

C11_Witness ==
    /\ lastEvent.type = "submitOk"
    /\ lastEvent.toasts = << "Customer added successfully" >>
    /\ lastEvent.calls = << SelectReq >>
    /\ editingCustomer = NullCustomer
    /\ formData = EmptyForm


\* C12: an edit request for a record of the in-memory list makes that record
\* the editing target and its four values the form's content, whatever the form
\* held before, and leaves the list, the filtered view, the query, the loading
\* flag and the calls in flight as they were.
C12_EditFrame ==
    [][ lastEvent'.type = "edit"
          => /\ \E i \in 1..Len(customers) : editingCustomer' = customers[i]
             /\ formData' = [ name  |-> editingCustomer'.name,
                              shirt |-> editingCustomer'.shirt,
                              pants |-> editingCustomer'.pants,
                              phone |-> editingCustomer'.phone ]
             /\ UNCHANGED << customers, filteredCustomers, searchQuery, loading,
                             effectPending, tasks, store, nextId, mutations >>
             /\ lastEvent'.toasts = << >>
             /\ lastEvent'.calls = << >> ]_vars

C12_Witness ==
    /\ lastEvent.type = "edit"
    /\ editingCustomer # NullCustomer
    /\ editingCustomer.phone # << >>
    /\ formData.phone = editingCustomer.phone
    /\ formData.name = editingCustomer.name


\* C13: a failed insert, update or delete is not retried: the step that takes
\* the error answer makes no store call (no second attempt, no re-fetch), ends
\* the handler, shows exactly one error notification and clears the loading
\* flag.
C13_NoRetry ==
    [][ \A t \in Running :
          (t.pc = "awaitMut" /\ t.resp.status = "error" /\ Resolves(t))
            => /\ lastEvent'.calls = << >>
               /\ tasks' = tasks (-) SetToBag({ t })
               /\ lastEvent'.toasts = << FailureMessage(t.resp.op) >>
               /\ loading' = FALSE
               /\ UNCHANGED store ]_vars

C13_Witness ==
    /\ lastEvent.type = "deleteError"
    /\ lastEvent.toasts = << "Error deleting customer" >>
    /\ lastEvent.calls = << >>
    /\ tasks = EmptyBag
    /\ ~loading


\* C14: fetches in flight resolve in any order and the last answer wins: the
\* list changes only when a successful select is taken and then becomes that
\* answer's rows, so an answer read before a later change of the table can
\* replace the rows of a fetch issued after it.
C14_LastResponseWins ==
    [][ /\ \A t \in Running :
             (t.pc = "awaitList" /\ t.resp.status = "ok" /\ Resolves(t))
               => customers' = t.resp.data
        /\ customers' # customers
             => \E t \in Running : /\ t.pc = "awaitList"
                                   /\ t.resp.status = "ok"
                                   /\ Resolves(t) ]_vars

C14_Witness ==
    /\ lastEvent.type = "fetchOkStale"
    /\ customers # store
    /\ tasks = EmptyBag


\* C15: the editing target is reset only by Cancel or by the successful answer
\* to a submission; the answer to a failed update, the result of a fetch, a
\* change of the query and the successful or failed answer to a delete leave
\* the editing target and the form fields as they were.
C15_EditingLeftOnlyByCancelOrSuccess ==
    [][ /\ (editingCustomer # NullCustomer /\ editingCustomer' = NullCustomer)
             => \/ lastEvent'.type = "cancel"
                \/ \E t \in Running : /\ t.kind = "submit"
                                      /\ t.pc = "awaitMut"
                                      /\ t.resp.status = "ok"
                                      /\ Resolves(t)
        /\ \A t \in Running :
             (/\ Resolves(t)
              /\ \/ t.pc = "awaitList"
                 \/ t.kind = "delete"
                 \/ t.resp.status = "error")
               => UNCHANGED << editingCustomer, formData >>
        /\ searchQuery' # searchQuery
             => UNCHANGED << editingCustomer, formData >> ]_vars

C15_Witness ==
    /\ lastEvent.type = "deleteOk"
    /\ editingCustomer # NullCustomer
    /\ formData.name = editingCustomer.name
    /\ formData.phone = editingCustomer.phone


\* C16: at most one create or modify submission is in flight at any time: no
\* second insert or update is issued while an earlier one is unanswered.
C16_OneSubmissionInFlight ==
    LET unanswered == { t \in Running : /\ t.kind = "submit"
                                        /\ t.pc = "awaitMut"
                                        /\ t.resp.status = "none" }
    IN  \A t \in unanswered : /\ CopiesIn(t, tasks) = 1
                              /\ \A u \in unanswered : u = t


\* C17: whenever a record is being edited and no store call is in flight, the
\* id of the editing target is the id of a record of the in-memory list.
C17_EditingTargetInList ==
    (editingCustomer # NullCustomer /\ tasks = EmptyBag)
      => \E i \in 1..Len(customers) : customers[i].id = editingCustomer.id


\* C18: when every user action is issued only after all earlier store calls
\* have resolved and this client is the only writer, the successful re-fetch
\* of a successful create, modify or delete makes the in-memory list the
\* table's rows in the table's order, and the filtered view is the filter of
\* that list once the filter effect has run.
C18_SequentialListIsStore ==
    /\ [][ \A t \in Running :
             (/\ t.kind \in { "submit", "delete" }
              /\ t.pc = "awaitList"
              /\ t.resp.status = "ok"
              /\ Resolves(t))
               => /\ customers' = store'
                  /\ filteredCustomers' = store'
                  /\ effectPending' ]_vars
    /\ [](tasks = EmptyBag /\ ~effectPending
            => filteredCustomers = filter(customers, searchQuery))

C18_Witness ==
    /\ lastEvent.type = "fetchOk"
    /\ mutations >= 1
    /\ Len(customers) = 2
    /\ customers = store

\* C19: if every store call is eventually answered and the user eventually
\* stops issuing actions, then from the initial state (loading flag set, first
\* fetch in flight) the loading flag eventually becomes false and stays false.
C19_LoadingEventuallyClear == <>[](~loading)

C19_Witness ==
    /\ mutations = MaxMutations
    /\ tasks = EmptyBag
    /\ ~effectPending
    /\ ~loading

====
